---- MODULE Spec2Model ----
(***************************************************************************)
(* nyaasibatch (src/main-cli.py): NyaaBatch.find resolves one episode to   *)
(* one torrent record, NyaaBatch.download fetches every resolved record,   *)
(* run() drives both from the command line.                                *)
(*                                                                         *)
(* Python strings are sequences of one-character strings, so that          *)
(* formatting, lower() and re.search are computed and not assumed.         *)
(***************************************************************************)
EXTENDS Integers, Sequences, FiniteSets, TLC

VARIABLES
    torrents,   \* NyaaBatch.torrents: list of (episode, record)
    missing,    \* NyaaBatch.missing: list of episode numbers
    opts,       \* the parsed command line (run)
    start_ep,   \* run(): local start_ep
    end_ep,     \* run(): local end_ep (None, a str or an int)
    ep_num,     \* run(): the for loop's next value of ep_num
    pc,         \* where control is
    frame,      \* the most recent find call: its arguments and locals
    exc,        \* the exception raised last (type "" when none)
    idx,        \* download(): position of the for loop in self.torrents
    fetched,    \* trace: (episode, outcome) of every requests.get issued
    attempted,  \* trace: the episode of every find call, in call order
    calls,      \* number of NyaaBatch operations invoked so far
    replies,    \* trace: what the user typed at each "Continue? [y/N] "
    report,     \* what line 159 printed (<<>> when nothing)
    status      \* the process exit status (-1 while running)

vars == <<torrents, missing, opts, start_ep, end_ep, ep_num, pc, frame, exc,
          idx, fetched, attempted, calls, replies, report, status>>

----------------------------------------------------------------------------
(* Bounds of the model.                                                    *)

\* Episodes requested lie in FirstEp..MaxEp: the range spans the boundary
\* between one-digit and two-digit episode numbers.
FirstEp == 9
MaxEp == 11
\* Hits one search() call returns at most.
MaxHits == 1
\* NyaaBatch operations invoked at most when the class is driven directly.
MaxCalls == 3

\* sys.maxsize is 2^63 - 1; the number here only has to exceed every
\* episode the model reaches.
SysMaxsize == 1000000

----------------------------------------------------------------------------
(* Strings.                                                                *)

Digits == <<"0", "1", "2", "3", "4", "5", "6", "7", "8", "9">>

\* str(n), n >= 0
RECURSIVE Str(_)
Str(n) == IF n < 10 THEN <<Digits[n + 1]>>
          ELSE Str(n \div 10) \o <<Digits[(n % 10) + 1]>>

\* str.lower(), on the characters the model uses
LowerChar(c) ==
    CASE c = "A" -> "a"
      [] c = "B" -> "b"
      [] c = "N" -> "n"
      [] c = "O" -> "o"
      [] c = "Y" -> "y"
      [] OTHER -> c

Lower(s) == [i \in 1..Len(s) |-> LowerChar(s[i])]

\* One pattern character against one text character: "." is the only
\* regular-expression metacharacter among the model's characters.
ReCharMatches(p, c) == p = "." \/ p = c

\* re.search(pattern, text) is not None, for patterns of literal
\* characters and "."
ReSearch(pattern, text) ==
    \E off \in 0..(Len(text) - Len(pattern)) :
        \A i \in 1..Len(pattern) : ReCharMatches(pattern[i], text[off + i])

\* All sequences over S of length at most n
SeqUpTo(S, n) == UNION {[1..k -> S] : k \in 0..n}

----------------------------------------------------------------------------
(* Values.                                                                 *)

\* A search hit (NyaaPy): name, seeders, download_url
Torrent(name, seeders) ==
    [name |-> name, seeders |-> seeders, download_url |-> <<"/">> \o name]

NoExc == [type |-> "", msg |-> <<>>]
Raise(type, msg) == [type |-> type, msg |-> msg]

UnableToFind ==
    <<"U", "n", "a", "b", "l", "e", " ", "t", "o", " ", "f", "i", "n", "d", " ">>
NoTorrentsToDownload ==
    <<"N", "o", " ", "t", "o", "r", "r", "e", "n", "t", "s", " ", "t", "o", " ",
      "d", "o", "w", "n", "l", "o", "a", "d">>

----------------------------------------------------------------------------
(* NyaaBatch.find                                                          *)

\* line 44 with the comparison off by one
EpisodeStrPadsTen(episode) ==
    IF episode > 10 THEN Str(episode) ELSE <<"0">> \o Str(episode)

\* line 44
EpisodeStr(episode) ==
    IF episode >= 10 THEN Str(episode) ELSE <<"0">> \o Str(episode)

\* line 46
Query(name, episode) == name \o <<" ", "-", " ">> \o EpisodeStr(episode)

\* lines 47 and 51: the two keywords handed to search()
Keywords(query, quality) ==
    << query \o <<" ", "[">> \o Str(quality) \o <<"p", "]">>,
       query \o <<" ", "(">> \o Str(quality) \o <<"p", ")">> >>

\* lines 50 and 54
Filters(untrusted) == IF untrusted THEN 0 ELSE 2

\* line 60 with a sort that puts a record before the records that have its
\* seeders (not stable)
RECURSIVE InsertBeforeEqualSeeders(_, _)
InsertBeforeEqualSeeders(sorted, t) ==
    IF sorted = <<>> THEN <<t>>
    ELSE IF Head(sorted)["seeders"] > t["seeders"]
         THEN <<Head(sorted)>> \o InsertBeforeEqualSeeders(Tail(sorted), t)
         ELSE <<t>> \o sorted

\* line 60: list.sort(key=seeders, reverse=True) is stable: a record goes
\* behind every record that has at least its seeders.
RECURSIVE InsertBySeeders(_, _)
InsertBySeeders(sorted, t) ==
    IF sorted = <<>> THEN <<t>>
    ELSE IF Head(sorted)["seeders"] >= t["seeders"]
         THEN <<Head(sorted)>> \o InsertBySeeders(Tail(sorted), t)
         ELSE <<t>> \o sorted

RECURSIVE SortBySeeders(_)
SortBySeeders(found) ==
    IF found = <<>> THEN <<>>
    ELSE InsertBySeeders(SortBySeeders(SubSeq(found, 1, Len(found) - 1)),
                         found[Len(found)])

\* line 65
IsExact(query, torrent_name) == ReSearch(Lower(query), Lower(torrent_name))

\* lines 70-72 without the tilde test of line 72
IsClosestKeepsTilde(name, episode_str, torrent_name) ==
    /\ ReSearch(name, Lower(torrent_name))
    /\ ReSearch(episode_str, Lower(torrent_name))

\* lines 70-72
IsClosest(name, episode_str, torrent_name) ==
    /\ ReSearch(name, Lower(torrent_name))
    /\ ReSearch(episode_str, Lower(torrent_name))
    /\ ~ReSearch(<<"~">>, Lower(torrent_name))

\* lines 63-74: one loop over found; it stops at the first record that
\* passes the test of line 65 or, when allow_closest, the test of line 70.
LoopStopsAt(found, name, episode, allow_closest) ==
    {i \in DOMAIN found :
        \/ IsExact(Query(name, episode), found[i]["name"])
        \/ /\ allow_closest
           /\ IsClosest(name, EpisodeStr(episode), found[i]["name"])}

\* lines 63-74 keeping the lowercased name of line 64 in the record chosen
ScanLowersName(found, name, episode, allow_closest) ==
    LET stops == LoopStopsAt(found, name, episode, allow_closest) IN
    IF stops = {} THEN [matched |-> <<>>, path |-> "none"]
    ELSE LET i == CHOOSE k \in stops : \A j \in stops : k <= j IN
         [matched |-> <<[found[i] EXCEPT !["name"] = Lower(@)]>>,
          path |-> IF IsExact(Query(name, episode), found[i]["name"])
                   THEN "exact" ELSE "closest"]

Scan(found, name, episode, allow_closest) ==
    LET stops == LoopStopsAt(found, name, episode, allow_closest) IN
    IF stops = {} THEN [matched |-> <<>>, path |-> "none"]
    ELSE LET i == CHOOSE k \in stops : \A j \in stops : k <= j IN
         [matched |-> <<found[i]>>,
          path |-> IF IsExact(Query(name, episode), found[i]["name"])
                   THEN "exact" ELSE "closest"]

\* int(text) for text of decimal digits with an optional minus sign
IsDigit(c) == \E d \in 1..10 : Digits[d] = c
DigitValue(c) == (CHOOSE d \in 1..10 : Digits[d] = c) - 1
RECURSIVE NatOf(_)
NatOf(s) == IF s = <<>> THEN 0
            ELSE 10 * NatOf(SubSeq(s, 1, Len(s) - 1)) + DigitValue(s[Len(s)])
IsIntText(s) ==
    LET body == IF s # <<>> /\ Head(s) = "-" THEN Tail(s) ELSE s IN
    body # <<>> /\ \A i \in 1..Len(body) : IsDigit(body[i])
IntOf(s) == IF Head(s) = "-" THEN 0 - NatOf(Tail(s)) ELSE NatOf(s)

\* line 83: input("Choose: ") or "0"
OrDefault(typed, default) == IF typed = <<>> THEN default ELSE typed

\* lines 77-84 with choices a list in the place of a dict: a negative
\* index counts from the end of the list
ChooseFromList(found, typed) ==
    LET text == OrDefault(typed, <<"0">>) IN
    IF ~IsIntText(text)
    THEN [matched |-> <<>>, exc |-> Raise("ValueError", text)]
    ELSE IF IntOf(text) \notin (0 - Len(found))..(Len(found) - 1)
         THEN [matched |-> <<>>, exc |-> Raise("IndexError", text)]
         ELSE [matched |-> <<found[(IntOf(text) % Len(found)) + 1]>>,
               exc |-> NoExc]

\* lines 77-84: the prompt; choices is a dict keyed 0..len(found)-1
Choose(found, typed) ==
    LET text == OrDefault(typed, <<"0">>) IN
    IF ~IsIntText(text)
    THEN [matched |-> <<>>, exc |-> Raise("ValueError", text)]
    ELSE IF IntOf(text) \notin 0..(Len(found) - 1)
         THEN [matched |-> <<>>, exc |-> Raise("KeyError", text)]
         ELSE [matched |-> <<found[IntOf(text) + 1]>>, exc |-> NoExc]

\* line 88: list.sort(key=episode) is stable and ascending
RECURSIVE InsertByEpisode(_, _)
InsertByEpisode(sorted, sel) ==
    IF sorted = <<>> THEN <<sel>>
    ELSE IF Head(sorted)[1] <= sel[1]
         THEN <<Head(sorted)>> \o InsertByEpisode(Tail(sorted), sel)
         ELSE <<sel>> \o sorted

RECURSIVE SortByEpisode(_)
SortByEpisode(sels) ==
    IF sels = <<>> THEN <<>>
    ELSE InsertByEpisode(SortByEpisode(SubSeq(sels, 1, Len(sels) - 1)),
                         sels[Len(sels)])

\* line 87 without the sort of line 88
AppendUnsorted(sels, episode, torrent) == Append(sels, <<episode, torrent>>)

\* lines 87-88
AppendSelection(sels, episode, torrent) ==
    SortByEpisode(Append(sels, <<episode, torrent>>))

NoFrame ==
    [name |-> <<>>, episode |-> 0, quality |-> 0, untrusted |-> FALSE,
     allow_closest |-> FALSE, query |-> <<>>, keywords |-> <<>>,
     filters |-> 0, searched |-> <<>>, found |-> <<>>, matched |-> <<>>,
     path |-> "none", prompted |-> FALSE, typed |-> <<>>]

\* The whole of find (lines 44-88) on self.torrents = sels: hits1 and hits2
\* are what the two search() calls return, typed is what the user types if
\* prompted. The result is the new self.torrents, the call's locals and the
\* exception raised.
Find(sels, name, episode, quality, untrusted, allow_closest, hits1, hits2, typed) ==
    LET query == Query(name, episode)
        searched == hits1 \o hits2
        found == SortBySeeders(searched)
        scan == Scan(found, name, episode, allow_closest)
        prompted == searched # <<>> /\ scan["matched"] = <<>>
        chosen == Choose(found, typed)
        matched == IF prompted THEN chosen["matched"] ELSE scan["matched"]
        raised == IF searched = <<>>
                  THEN Raise("FileNotFoundError", UnableToFind \o query)
                  ELSE IF prompted THEN chosen["exc"] ELSE NoExc
        locals == [name |-> name, episode |-> episode, quality |-> quality,
                   untrusted |-> untrusted, allow_closest |-> allow_closest,
                   query |-> query, keywords |-> Keywords(query, quality),
                   filters |-> Filters(untrusted), searched |-> searched,
                   found |-> IF searched = <<>> THEN <<>> ELSE found,
                   matched |-> IF searched = <<>> THEN <<>> ELSE matched,
                   path |-> IF searched = <<>> THEN "none"
                            ELSE IF prompted THEN "prompt" ELSE scan["path"],
                   prompted |-> prompted,
                   typed |-> IF prompted THEN typed ELSE <<>>]
    IN [torrents |-> IF raised = NoExc
                     THEN AppendSelection(sels, episode, matched[1])
                     ELSE sels,
        frame |-> locals,
        exc |-> raised]

----------------------------------------------------------------------------
(* NyaaBatch.download and NyaaBatch.last                                   *)

\* line 107: list.sort() of episode numbers, ascending
RECURSIVE InsertNumber(_, _)
InsertNumber(sorted, n) ==
    IF sorted = <<>> THEN <<n>>
    ELSE IF Head(sorted) <= n
         THEN <<Head(sorted)>> \o InsertNumber(Tail(sorted), n)
         ELSE <<n>> \o sorted

RECURSIVE SortNumbers(_)
SortNumbers(ns) ==
    IF ns = <<>> THEN <<>>
    ELSE InsertNumber(SortNumbers(SubSeq(ns, 1, Len(ns) - 1)), ns[Len(ns)])

\* lines 106-107
RecordMissing(ledger, ep) == SortNumbers(Append(ledger, ep))

\* What requests.get (line 99) does: it answers, it times out
\* (requests.Timeout), or it fails otherwise (any other exception).
FetchOutcomes == {"ok", "timeout", "error"}

\* download without the test of lines 94-95
DownloadSkipsNoWork(sels) == FALSE

\* lines 94-95
DownloadRaisesNoWork(sels) == sels = <<>>

\* lines 96-109 with a fetch that timed out tried again
DownloadStepRetries(outcome, after) ==
    /\ pc = "download"
    /\ idx <= Len(torrents)
    /\ fetched' = Append(fetched, <<torrents[idx][1], outcome>>)
    /\ IF outcome = "ok"
       THEN /\ idx' = idx + 1
            /\ UNCHANGED <<missing, exc, pc, status>>
       ELSE IF outcome = "timeout"
            THEN /\ missing' = RecordMissing(missing, torrents[idx][1])
                 /\ idx' = idx
                 /\ UNCHANGED <<exc, pc, status>>
            ELSE /\ exc' = Raise("ConnectionError", <<>>)
                 /\ pc' = after
                 /\ status' = IF after = "crashed" THEN 1 ELSE status
                 /\ UNCHANGED <<missing, idx>>
    /\ UNCHANGED <<torrents, opts, start_ep, end_ep, ep_num, frame,
                   attempted, calls, replies, report>>

\* lines 96-109 with lines 106-107 after the try statement instead of inside
\* its except clause: the episode is recorded whether or not the fetch
\* timed out
DownloadStepRecordsAll(outcome, after) ==
    /\ pc = "download"
    /\ idx <= Len(torrents)
    /\ fetched' = Append(fetched, <<torrents[idx][1], outcome>>)
    /\ IF outcome \in {"ok", "timeout"}
       THEN /\ missing' = RecordMissing(missing, torrents[idx][1])
            /\ idx' = idx + 1
            /\ UNCHANGED <<exc, pc, status>>
       ELSE /\ exc' = Raise("ConnectionError", <<>>)
            /\ pc' = after
            /\ status' = IF after = "crashed" THEN 1 ELSE status
            /\ UNCHANGED <<missing, idx>>
    /\ UNCHANGED <<torrents, opts, start_ep, end_ep, ep_num, frame,
                   attempted, calls, replies, report>>

\* lines 96-109 with break in the place of continue (line 108)
DownloadStepBreaks(outcome, after) ==
    /\ pc = "download"
    /\ idx <= Len(torrents)
    /\ fetched' = Append(fetched, <<torrents[idx][1], outcome>>)
    /\ IF outcome = "ok"
       THEN /\ idx' = idx + 1
            /\ UNCHANGED <<missing, exc, pc, status>>
       ELSE IF outcome = "timeout"
            THEN /\ missing' = RecordMissing(missing, torrents[idx][1])
                 /\ idx' = Len(torrents) + 1
                 /\ UNCHANGED <<exc, pc, status>>
            ELSE /\ exc' = Raise("ConnectionError", <<>>)
                 /\ pc' = after
                 /\ status' = IF after = "crashed" THEN 1 ELSE status
                 /\ UNCHANGED <<missing, idx>>
    /\ UNCHANGED <<torrents, opts, start_ep, end_ep, ep_num, frame,
                   attempted, calls, replies, report>>

\* lines 96-109, one iteration of the for loop, at position idx
DownloadStep(outcome, after) ==
    /\ pc = "download"
    /\ idx <= Len(torrents)
    /\ fetched' = Append(fetched, <<torrents[idx][1], outcome>>)
    /\ IF outcome = "ok"
       THEN /\ idx' = idx + 1
            /\ UNCHANGED <<missing, exc, pc, status>>
       ELSE IF outcome = "timeout"
            THEN /\ missing' = RecordMissing(missing, torrents[idx][1])
                 /\ idx' = idx + 1
                 /\ UNCHANGED <<exc, pc, status>>
            ELSE /\ exc' = Raise("ConnectionError", <<>>)
                 /\ pc' = after
                 /\ status' = IF after = "crashed" THEN 1 ELSE status
                 /\ UNCHANGED <<missing, idx>>
    /\ UNCHANGED <<torrents, opts, start_ep, end_ep, ep_num, frame,
                   attempted, calls, replies, report>>

\* line 96: the for loop is exhausted and download returns
DownloadReturn(after) ==
    /\ pc = "download"
    /\ idx > Len(torrents)
    /\ pc' = after
    /\ UNCHANGED <<torrents, missing, opts, start_ep, end_ep, ep_num, frame,
                   exc, idx, fetched, attempted, calls, replies, report,
                   status>>

\* line 112: self.torrents[-1]
LastRaisesIndexError(sels) == sels = <<>>

----------------------------------------------------------------------------
(* What the collaborators may answer.                                      *)

\* how the indexer writes episode number ep (below 100) in a release name
PadTwo(ep) == <<Digits[(ep \div 10) + 1], Digits[(ep % 10) + 1]>>

\* release names for episode ep
ReleaseNames(ep) ==
    << <<"a", " ", "-", " ">> \o PadTwo(ep),
       <<"A", " ">> \o PadTwo(ep),
       <<"a", " ">> \o PadTwo(ep) \o <<"~">> >>

SeederCounts == {1, 2}

\* every release of episode ep with every seeder count
FullCatalogue(ep) ==
    {Torrent(ReleaseNames(ep)[k], s) : k \in 1..3, s \in SeederCounts}

Titles == {<<"a">>, <<"A">>, <<"a", ".">>}
Episodes == FirstEp..MaxEp

\* what the user may type at "Choose: "
Typed == {<<>>, <<"-", "1">>, <<"x">>} \cup {Str(k) : k \in 0..(2 * MaxHits)}

\* what the user may type at "Continue? [y/N] "
Answers == {<<>>, <<"n">>, <<"N">>, <<"n", "o">>, <<"y">>}

----------------------------------------------------------------------------
(* A NyaaBatch driven directly: find and download in any order.            *)

Constructed ==
    /\ torrents = <<>>
    /\ missing = <<>>
    /\ frame = NoFrame
    /\ exc = NoExc
    /\ idx = 0
    /\ fetched = <<>>
    /\ attempted = <<>>
    /\ calls = 0
    /\ replies = <<>>
    /\ report = <<>>
    /\ status = 0 - 1

NoRun ==
    /\ opts = [name |-> <<>>, range |-> <<>>, episode |-> 0, quality |-> 0]
    /\ start_ep = 0
    /\ end_ep = [t |-> "None", v |-> 0]
    /\ ep_num = 0

InitApi == Constructed /\ NoRun /\ pc = "idle"

\* whether find reaches the prompt of line 83 on these arguments
Prompts(name, episode, allow_closest, hits1, hits2) ==
    /\ hits1 \o hits2 # <<>>
    /\ Scan(SortBySeeders(hits1 \o hits2), name, episode,
            allow_closest)["matched"] = <<>>

\* one call of find; answers[episode] are the pairs of hit lists the two
\* searches may return
CallFind(limit, names, flags, closest, answers) ==
    /\ pc = "idle"
    /\ calls < limit
    /\ \E name \in names, episode \in Episodes, untrusted \in flags,
          allow_closest \in closest :
         \E hits \in answers[episode] :
           \E typed \in IF Prompts(name, episode, allow_closest,
                                   hits[1], hits[2])
                        THEN Typed ELSE {<<>>} :
             LET r == Find(torrents, name, episode, 1080, untrusted,
                           allow_closest, hits[1], hits[2], typed) IN
             /\ torrents' = r["torrents"]
             /\ frame' = r["frame"]
             /\ exc' = r["exc"]
    /\ calls' = calls + 1
    /\ UNCHANGED <<missing, opts, start_ep, end_ep, ep_num, pc, idx, fetched,
                   attempted, replies, report, status>>

\* the answers drawn when several calls follow one another: nothing, the
\* exact release, a release that is no match, both
FewAnswers(ep) ==
    LET exact == Torrent(ReleaseNames(ep)[1], 1)
        other == Torrent(ReleaseNames(ep)[3], 2) IN
    { <<<<>>, <<>>>>, <<<<exact>>, <<>>>>, <<<<>>, <<other>>>>,
      <<<<other>>, <<exact>>>> }

\* every pair of answers of at most MaxHits hits
AllAnswers(ep) ==
    SeqUpTo(FullCatalogue(ep), MaxHits) \X SeqUpTo(FullCatalogue(ep), MaxHits)

ApiFind ==
    CallFind(MaxCalls, {<<"a">>}, BOOLEAN, {FALSE},
             [ep \in Episodes |-> FewAnswers(ep)])

\* one call of download
ApiDownload ==
    /\ pc = "idle"
    /\ calls < MaxCalls
    /\ calls' = calls + 1
    /\ IF DownloadRaisesNoWork(torrents)
       THEN /\ exc' = Raise("UserError", NoTorrentsToDownload)
            /\ UNCHANGED <<pc, idx>>
       ELSE /\ exc' = NoExc
            /\ pc' = "download"
            /\ idx' = 1
    /\ UNCHANGED <<torrents, missing, opts, start_ep, end_ep, ep_num, frame,
                   fetched, attempted, replies, report, status>>

ApiFetch == \E outcome \in FetchOutcomes : DownloadStep(outcome, "idle")

ApiDownloadReturn == DownloadReturn("idle")

NextApi == ApiFind \/ ApiDownload \/ ApiFetch \/ ApiDownloadReturn

SpecApi == InitApi /\ [][NextApi]_vars

----------------------------------------------------------------------------
(* One find call on a fresh NyaaBatch, over every release of the episode.  *)

FindOnce ==
    CallFind(1, Titles, {FALSE}, BOOLEAN, [ep \in Episodes |-> AllAnswers(ep)])

NextFind == FindOnce

SpecFind == InitApi /\ [][NextFind]_vars

----------------------------------------------------------------------------
(* run()                                                                   *)

\* str.split(sep) for a one-character sep
RECURSIVE Split(_, _)
Split(s, sep) ==
    IF \A i \in 1..Len(s) : s[i] # sep THEN <<s>>
    ELSE LET k == CHOOSE i \in 1..Len(s) :
                      s[i] = sep /\ \A j \in 1..(i - 1) : s[j] # sep IN
         <<SubSeq(s, 1, k - 1)>> \o Split(SubSeq(s, k + 1, Len(s)), sep)

None == [t |-> "None", v |-> 0]
StrValue == [t |-> "str", v |-> 0]
IntValue(n) == [t |-> "int", v |-> n]

\* lines 117-123: start_ep and end_ep after the range option is read.
\* opts.range is <<>> when the option is absent.
RangeBounds(range) ==
    LET parts == Split(range, "-") IN
    IF range = <<>>
    THEN [exc |-> NoExc, start_ep |-> 1, end_ep |-> None]
    ELSE IF Len(parts) # 2 \/ ~IsIntText(parts[1])
            \/ (parts[2] # <<>> /\ ~IsIntText(parts[2]))
         THEN [exc |-> Raise("ValueError", range), start_ep |-> 1,
               end_ep |-> None]
         ELSE [exc |-> NoExc, start_ep |-> IntOf(parts[1]),
               end_ep |-> IF parts[2] # <<>> THEN IntValue(IntOf(parts[2]))
                          ELSE StrValue]

\* lines 125-127: opts.episode is 0 when the option is absent (the code
\* tests its truth value only)
EpisodeBounds(b, episode) ==
    IF episode # 0
    THEN [b EXCEPT !["start_ep"] = episode,
                   !["end_ep"] = IntValue(episode + 1)]
    ELSE b

\* lines 129-130
DefaultEnd(b) ==
    IF b["end_ep"] = None
    THEN [b EXCEPT !["end_ep"] = IntValue(SysMaxsize)]
    ELSE b

\* lines 117-136: the bounds of the for loop; end_ep + 1 of line 136 is a
\* TypeError when end_ep is a str
LoopBounds(o) ==
    LET r == RangeBounds(o["range"])
        b == DefaultEnd(EpisodeBounds(r, o["episode"])) IN
    IF r["exc"] # NoExc THEN r
    ELSE IF b["end_ep"]["t"] = "str"
         THEN [b EXCEPT !["exc"] = Raise("TypeError", <<>>)]
         ELSE b

\* an exception nobody catches ends the process with a traceback
Crash(e) ==
    /\ pc' = "crashed"
    /\ exc' = e
    /\ status' = 1

\* the command lines drawn
Ranges ==
    {<<>>} \cup {Str(n) \o <<"-">> \o Str(m) : n \in Episodes, m \in Episodes}
           \cup {Str(n) \o <<"-">> : n \in Episodes}

Options ==
    [name : {<<"a">>}, range : Ranges, episode : {0} \cup Episodes,
     quality : {1080}]

Init ==
    /\ Constructed
    /\ opts \in Options
    /\ start_ep = 0
    /\ end_ep = None
    /\ ep_num = 0
    /\ pc = "start"

\* lines 115-136, up to the first iteration
RunStart ==
    /\ pc = "start"
    /\ LET b == LoopBounds(opts) IN
       /\ start_ep' = b["start_ep"]
       /\ end_ep' = b["end_ep"]
       /\ ep_num' = b["start_ep"]
       /\ IF b["exc"] # NoExc
          THEN Crash(b["exc"])
          ELSE pc' = "loop" /\ UNCHANGED <<exc, status>>
    /\ UNCHANGED <<torrents, missing, opts, frame, idx, fetched, attempted,
                   calls, replies, report>>

\* lines 136-139: one iteration, batch.find(name, ep_num, opts.quality)
RunFind ==
    /\ pc = "loop"
    /\ ep_num <= end_ep["v"]
    /\ calls < MaxCalls
    /\ \E hits \in FewAnswers(ep_num) :
         \E typed \in IF Prompts(opts["name"], ep_num, FALSE, hits[1], hits[2])
                      THEN Typed ELSE {<<>>} :
           LET r == Find(torrents, opts["name"], ep_num, opts["quality"],
                         FALSE, FALSE, hits[1], hits[2], typed) IN
           /\ torrents' = r["torrents"]
           /\ frame' = r["frame"]
           /\ IF r["exc"] = NoExc
              THEN /\ ep_num' = ep_num + 1
                   /\ UNCHANGED <<pc, exc, status>>
              ELSE IF r["exc"]["type"] = "FileNotFoundError"
                   THEN /\ pc' = "except"
                        /\ exc' = r["exc"]
                        /\ UNCHANGED <<ep_num, status>>
                   ELSE Crash(r["exc"]) /\ UNCHANGED ep_num
    /\ attempted' = Append(attempted, ep_num)
    /\ calls' = calls + 1
    /\ UNCHANGED <<missing, opts, start_ep, end_ep, idx, fetched, replies,
                   report>>

\* line 136: the range is exhausted
RunLoopEnd ==
    /\ pc = "loop"
    /\ ep_num > end_ep["v"]
    /\ pc' = "resolved"
    /\ UNCHANGED <<torrents, missing, opts, start_ep, end_ep, ep_num, frame,
                   exc, idx, fetched, attempted, calls, replies, report,
                   status>>

\* lines 140-141: print(e), then batch.last() twice
RunExcept ==
    /\ pc = "except"
    /\ IF LastRaisesIndexError(torrents)
       THEN Crash(Raise("IndexError", <<>>))
       ELSE pc' = "prompt" /\ UNCHANGED <<exc, status>>
    /\ UNCHANGED <<torrents, missing, opts, start_ep, end_ep, ep_num, frame,
                   idx, fetched, attempted, calls, replies, report>>

\* line 143
Declines(reply) == Lower(OrDefault(reply, <<"n">>)) = <<"n">>

\* lines 142-144 with sys.exit(0) in the place of break
RunContinueExits ==
    /\ pc = "prompt"
    /\ \E reply \in Answers :
         /\ replies' = Append(replies, reply)
         /\ IF Declines(reply)
            THEN pc' = "done" /\ status' = 0 /\ UNCHANGED ep_num
            ELSE pc' = "loop" /\ ep_num' = ep_num + 1 /\ UNCHANGED status
    /\ exc' = NoExc
    /\ UNCHANGED <<torrents, missing, opts, start_ep, end_ep, frame, idx,
                   fetched, attempted, calls, report>>

\* lines 142-144
RunContinue ==
    /\ pc = "prompt"
    /\ \E reply \in Answers :
         /\ replies' = Append(replies, reply)
         /\ IF Declines(reply)
            THEN pc' = "resolved" /\ UNCHANGED ep_num
            ELSE pc' = "loop" /\ ep_num' = ep_num + 1
    /\ exc' = NoExc
    /\ UNCHANGED <<torrents, missing, opts, start_ep, end_ep, frame, idx,
                   fetched, attempted, calls, report, status>>

\* lines 146-157: batch.download() is called; UserError ends the process
\* with sys.exit(1)
RunDownload ==
    /\ pc = "resolved"
    /\ IF DownloadRaisesNoWork(torrents)
       THEN /\ exc' = Raise("UserError", NoTorrentsToDownload)
            /\ pc' = "exited"
            /\ status' = 1
            /\ UNCHANGED idx
       ELSE /\ pc' = "download"
            /\ idx' = 1
            /\ UNCHANGED <<exc, status>>
    /\ UNCHANGED <<torrents, missing, opts, start_ep, end_ep, ep_num, frame,
                   fetched, attempted, calls, replies, report>>

RunFetch == \E outcome \in FetchOutcomes : DownloadStep(outcome, "crashed")

RunDownloadReturn == DownloadReturn("report")

\* str.join: a TypeError unless every item is a str
JoinRaisesTypeError(items) == \E i \in 1..Len(items) : items[i] \in Int

RECURSIVE Join(_, _)
Join(sep, items) ==
    IF items = <<>> THEN <<>>
    ELSE IF Len(items) = 1 THEN items[1]
         ELSE items[1] \o sep \o Join(sep, Tail(items))

MissingEpisodes ==
    <<"M", "i", "s", "s", "i", "n", "g", " ", "e", "p", "i", "s", "o", "d",
      "e", "s", ":", " ">>

\* lines 158-159, then run() returns
RunReport ==
    /\ pc = "report"
    /\ IF missing = <<>>
       THEN /\ pc' = "done"
            /\ status' = 0
            /\ UNCHANGED <<exc, report>>
       ELSE IF JoinRaisesTypeError(missing)
            THEN Crash(Raise("TypeError", <<>>)) /\ UNCHANGED report
            ELSE /\ report' = MissingEpisodes \o Join(<<",", " ">>, missing)
                 /\ pc' = "done"
                 /\ status' = 0
                 /\ UNCHANGED exc
    /\ UNCHANGED <<torrents, missing, opts, start_ep, end_ep, ep_num, frame,
                   idx, fetched, attempted, calls, replies>>

Next ==
    \/ RunStart
    \/ RunFind
    \/ RunLoopEnd
    \/ RunExcept
    \/ RunContinue
    \/ RunDownload
    \/ RunFetch
    \/ RunDownloadReturn
    \/ RunReport

Spec == Init /\ [][Next]_vars

----------------------------------------------------------------------------
(* Properties.  They are stated with the plain substring test and with the *)
(* two-digit episode text written out, not with the operators of find.     *)

\* the plain substring test "needle in text"
Contains(text, needle) ==
    \E off \in 0..(Len(text) - Len(needle)) :
        \A i \in 1..Len(needle) : needle[i] = text[off + i]

\* the query "{title} - {episodeStr}" of a call, as the specification has it
SpecQuery(f) == f["name"] \o <<" ", "-", " ">> \o PadTwo(f["episode"])

\* a find call has been made and its searches returned something
Searched == calls > 0 /\ frame["searched"] # <<>>

\* positions of the ranked list whose name case-insensitively contains the
\* query
ExactPositions ==
    {i \in DOMAIN frame["found"] :
        Contains(Lower(frame["found"][i]["name"]), Lower(SpecQuery(frame)))}

\* positions of the ranked list whose lowercased name contains the
\* lowercased title and the episode text, and no tilde
ClosestPositions ==
    {i \in DOMAIN frame["found"] :
        LET n == Lower(frame["found"][i]["name"]) IN
        /\ Contains(n, Lower(frame["name"]))
        /\ Contains(n, PadTwo(frame["episode"]))
        /\ ~Contains(n, <<"~">>)}

First(S) == CHOOSE k \in S : \A j \in S : k <= j

\* C1: whenever a candidate's name case-insensitively contains the query,
\* find selects the first such candidate of the ranked list, through the
\* exact-match path and without prompting, whatever allow_closest is.
C1_ExactMatchFirst ==
    (Searched /\ ExactPositions # {}) =>
        /\ frame["matched"] = <<frame["found"][First(ExactPositions)]>>
        /\ frame["path"] = "exact"
        /\ ~frame["prompted"]

\* C8: with allow_closest and no exact-match candidate, find selects the
\* first candidate of the ranked list whose lowercased name contains the
\* lowercased title and the episode text and no tilde, without prompting,
\* for every title.
C8_ClosestMatchFirst ==
    (Searched /\ frame["allow_closest"] /\ ExactPositions = {}
       /\ ClosestPositions # {}) =>
        /\ frame["matched"] = <<frame["found"][First(ClosestPositions)]>>
        /\ ~frame["prompted"]

\* C9: a candidate whose name contains a tilde is never selected through
\* the closest-match path; when one is selected, it is by exact match or by
\* the user's choice at the prompt.
C9_TildeNeverClosest ==
    (Searched /\ frame["matched"] # <<>>
       /\ Contains(frame["matched"][1]["name"], <<"~">>)) =>
        /\ frame["path"] # "closest"
        /\ frame["path"] \in {"exact", "prompt"}

\* C9 witness: the closest-match path selected a record after passing over
\* a tilde release that holds both the title and the episode text.
C9_Witness ==
    /\ Searched
    /\ frame["path"] = "closest"
    /\ \E i \in DOMAIN frame["found"] :
         LET n == Lower(frame["found"][i]["name"]) IN
         /\ Contains(n, <<"~">>)
         /\ Contains(n, Lower(frame["name"]))
         /\ Contains(n, PadTwo(frame["episode"]))
         /\ frame["found"][i]["seeders"] > frame["matched"][1]["seeders"]

\* declining at "Continue? [y/N] ": "no" or "n" in any case, or nothing
SaysNo(reply) == Lower(reply) \in {<<>>, <<"n">>, <<"n", "o">>}

\* C2: once the user has declined to continue after a NotFound, find is not
\* invoked again.
C2_DeclineEndsLoop ==
    [][(\E i \in DOMAIN replies : SaysNo(replies[i]))
          => attempted' = attempted]_vars

\* C3: from the handler of a NotFound the driver always reaches the
\* continue/stop prompt, whatever self.torrents holds.
C3_NotFoundReachesPrompt == [][pc = "except" => pc' = "prompt"]_vars

\* C4: when download() has returned and the missing ledger is not empty,
\* the run reports the ledger and ends normally.
C4_MissingReported ==
    [][(pc = "report" /\ missing # <<>>)
          => (pc' = "done" /\ status' = 0 /\ report' # <<>>)]_vars

\* whether episode e is requested by the command line o
Requested(o, e) ==
    LET parts == Split(o["range"], "-") IN
    IF o["episode"] # 0 THEN e = o["episode"]
    ELSE IF o["range"] = <<>> THEN e >= 1
    ELSE /\ e >= IntOf(parts[1])
         /\ parts[2] # <<>> => e <= IntOf(parts[2])

\* C5: run() invokes find only for episodes of the request, in ascending
\* order and each at most once; for a single episode e, only for e.
C5_OnlyRequestedEpisodes ==
    /\ \A i \in DOMAIN attempted : Requested(opts, attempted[i])
    /\ \A i, j \in DOMAIN attempted : i < j => attempted[i] < attempted[j]

Occurrences(seq, x) == Cardinality({k \in DOMAIN seq : seq[k] = x})

\* download() has returned to run()
DownloadReturned ==
    /\ torrents # <<>>
    /\ idx = Len(torrents) + 1
    /\ pc \in {"report", "done", "crashed"}

\* C6: a timeout never reaches the caller and never ends the loop: every
\* selection before the loop's position has been fetched, all of them once
\* download() has returned, and the missing ledger is ascending and holds
\* exactly the episodes whose fetch timed out.
C6_TimeoutNeverAborts ==
    /\ exc["type"] # "Timeout"
    /\ \A i, j \in DOMAIN missing : i < j => missing[i] <= missing[j]
    /\ \A k \in DOMAIN fetched :
         Occurrences(missing, fetched[k][1])
           = Occurrences(fetched, <<fetched[k][1], "timeout">>)
    /\ \A k \in DOMAIN missing :
         Occurrences(fetched, <<missing[k], "timeout">>) > 0
    /\ pc = "download" => Len(fetched) = idx - 1
    /\ DownloadReturned =>
         /\ Len(fetched) = Len(torrents)
         /\ \A k \in DOMAIN torrents : fetched[k][1] = torrents[k][1]

\* C6 witness: download() has returned after a fetch timed out and a later
\* selection was fetched all the same.
C6_Witness ==
    /\ DownloadReturned
    /\ \E k \in DOMAIN fetched :
         /\ fetched[k][2] = "timeout"
         /\ k < Len(fetched)
         /\ fetched[k][1] = missing[1]

\* a step that is one find call, when the class is driven directly
FindStep == calls' = calls + 1 /\ pc' = "idle" /\ exc'["type"] # "UserError"

\* C7: when both searches return nothing, find raises NotFound carrying
\* "{title} - {episodeStr}" with no quality suffix, the episode in two
\* digits, and leaves the selections and the missing ledger as they were.
C7_NotFoundLeavesState ==
    [][(FindStep /\ frame'["searched"] = <<>>)
          => /\ exc'["type"] = "FileNotFoundError"
             /\ exc'["msg"] = UnableToFind \o frame'["name"]
                                \o <<" ", "-", " ">> \o PadTwo(frame'["episode"])
             /\ torrents' = torrents
             /\ missing' = missing]_vars

\* C7 witness: NotFound for a one-digit episode, raised with selections in
\* the list.
C7_Witness ==
    /\ exc["type"] = "FileNotFoundError"
    /\ frame["episode"] < 10
    /\ torrents # <<>>

\* C10: the selections are ascending by episode number, whatever the order
\* of the find calls and whether they succeeded.
C10_SelectionsSorted ==
    \A i, j \in DOMAIN torrents : i < j => torrents[i][1] <= torrents[j][1]

\* C10 witness: the last find call succeeded for an episode below one
\* already selected.
C10_Witness ==
    /\ calls > 0
    /\ exc = NoExc
    /\ frame["matched"] # <<>>
    /\ Len(fetched) = 0
    /\ Len(torrents) >= 2
    /\ frame["episode"] < torrents[Len(torrents)][1]

StrictlyAscending(sels) ==
    \A i, j \in DOMAIN sels : i < j => sels[i][1] < sels[j][1]

\* C11 as stated: after any sequence of find calls no episode number
\* occurs twice in the selections.
C11_NeverDuplicated == StrictlyAscending(torrents)

\* C11: each find call appends at most one selection and removes none, and
\* a find call for an episode that is not yet selected keeps the selections
\* strictly ordered by episode number.
C11_StrictUnlessRepeated ==
    [][FindStep =>
         /\ Len(torrents') \in {Len(torrents), Len(torrents) + 1}
         /\ (/\ StrictlyAscending(torrents)
             /\ \A k \in DOMAIN torrents : torrents[k][1] # frame'["episode"])
              => StrictlyAscending(torrents')]_vars

\* C11 witness: three selections, the last call having selected the lowest
\* episode.
C11_Witness ==
    /\ Len(torrents) = 3
    /\ StrictlyAscending(torrents)
    /\ exc = NoExc
    /\ fetched = <<>>
    /\ frame["episode"] = torrents[1][1]

Range(seq) == {seq[i] : i \in DOMAIN seq}

\* C12: for every non-empty concatenated result, the record that a
\* successful find appends to the selections is one of the records of that
\* concatenated result, on the exact, the closest and the interactive path.
C12_SelectedFromResult ==
    (Searched /\ exc = NoExc) =>
        /\ frame["path"] \in {"exact", "closest", "prompt"}
        /\ torrents # <<>>
        /\ \E k \in DOMAIN torrents :
              /\ torrents[k][1] = frame["episode"]
              /\ torrents[k][2] \in Range(frame["searched"])
              /\ frame["matched"] = <<torrents[k][2]>>

\* C12 witness: the closest path appended a record whose name differs from
\* its lowercased form.
C12_Witness ==
    /\ Searched
    /\ exc = NoExc
    /\ frame["path"] = "closest"
    /\ Len(torrents) = 1
    /\ torrents[1][2] \in Range(frame["searched"])
    /\ Lower(torrents[1][2]["name"]) # torrents[1][2]["name"]

\* C13: download() called with empty selections fails with NoWork
\* (UserError "No torrents to download") before any fetch or file write,
\* and leaves the missing ledger unchanged.
C13_EmptyDownloadFails ==
    [][(pc = "resolved" /\ torrents = <<>>) =>
         /\ exc' = Raise("UserError", NoTorrentsToDownload)
         /\ pc' = "exited"
         /\ fetched' = fetched
         /\ fetched' = <<>>
         /\ missing' = missing
         /\ torrents' = torrents]_vars

\* C13 witness: download() was called with no selection and raised.
C13_Witness ==
    /\ pc = "exited"
    /\ torrents = <<>>
    /\ exc = Raise("UserError", NoTorrentsToDownload)
    /\ fetched = <<>>
    /\ missing = <<>>

Ended == pc \in {"done", "exited", "crashed"}

\* C14: a run ends with exit status 1 exactly when the download phase is
\* reached with no resolved selection (download raises NoWork and run()
\* calls sys.exit(1)); every other run, including runs where some episode
\* was not found or some download timed out, ends with exit status 0.
C14_ExitStatus ==
    Ended =>
        /\ status \in {0, 1}
        /\ status = 1 <=> (pc = "exited" /\ torrents = <<>>)

MissingWellFormed ==
    /\ \A i, j \in DOMAIN missing : i < j => missing[i] < missing[j]
    /\ \A k \in DOMAIN missing :
         /\ \E s \in DOMAIN torrents : torrents[s][1] = missing[k]
         /\ \E f \in DOMAIN fetched : fetched[f] = <<missing[k], "timeout">>

MissingOnlyGrowsOnTimeout ==
    /\ \A k \in DOMAIN missing : missing[k] \in Range(missing')
    /\ Len(missing') >= Len(missing)
    /\ missing' # missing =>
         \E s \in DOMAIN torrents :
            /\ fetched' = Append(fetched, <<torrents[s][1], "timeout">>)
            /\ Range(missing') = Range(missing) \cup {torrents[s][1]}
            /\ Len(missing') = Len(missing) + 1
    /\ (fetched' # fetched /\ fetched'[Len(fetched')][2] # "timeout")
         => missing' = missing

\* C15: during a run the missing ledger is ascending with no duplicate
\* episode, every episode in it is the episode of a selection whose fetch
\* timed out, an entry is added only when a fetch times out, and no entry is
\* ever removed.
C15_MissingLedger == []MissingWellFormed /\ [][MissingOnlyGrowsOnTimeout]_vars

\* C15 witness: download() has returned with two episodes in the ledger and
\* one selection fetched.
C15_Witness ==
    /\ DownloadReturned
    /\ Len(missing) = 2
    /\ Len(fetched) = 3
    /\ \E k \in DOMAIN fetched : fetched[k][2] = "ok"

WithSeeders(seq, n) ==
    LET Has(t) == t["seeders"] = n IN SelectSeq(seq, Has)

\* C16: the ranking orders the concatenated result descending by seeders
\* and is stable: it keeps every record, and records with equal seeders
\* keep the order in which the searches returned them.
C16_RankingStable ==
    Searched =>
        LET found == frame["found"]
            searched == frame["searched"] IN
        /\ Len(found) = Len(searched)
        /\ \A i, j \in DOMAIN found :
              i < j => found[i]["seeders"] >= found[j]["seeders"]
        /\ \A k \in DOMAIN searched :
              WithSeeders(found, searched[k]["seeders"])
                = WithSeeders(searched, searched[k]["seeders"])

\* C16 witness: two different records with equal seeders, ranked in the
\* order of the searches.
C16_Witness ==
    /\ Searched
    /\ LET found == frame["found"]
           searched == frame["searched"] IN
       /\ Len(found) = 2
       /\ found[1]["seeders"] = found[2]["seeders"]
       /\ found[1]["name"] # found[2]["name"]
       /\ found = searched

InLoop == pc \in {"start", "loop", "except", "prompt"}
PastLoop == pc \in {"download", "report", "done", "exited"}
DownloadLeft == idx >= 1 /\ pc # "download"
AttemptedInOrder ==
    /\ Len(fetched) <= Len(torrents)
    /\ \A k \in DOMAIN fetched : fetched[k][1] = torrents[k][1]
    /\ \A i, j \in DOMAIN fetched : i < j => fetched[i][1] < fetched[j][1]
FetchFailed == \E k \in DOMAIN fetched : fetched[k][2] = "error"

\* C17 as stated: once the loop has ended and download() has been invoked
\* and left, every selection accumulated has been attempted, in ascending
\* episode order.
C17_EverySelectionAttempted ==
    DownloadLeft => (AttemptedInOrder /\ Len(fetched) = Len(torrents))

C17_State ==
    /\ (InLoop \/ pc = "resolved") => (fetched = <<>> /\ idx = 0)
    /\ pc = "resolved" => ENABLED RunDownload
    /\ AttemptedInOrder
    /\ (DownloadLeft /\ ~FetchFailed) => Len(fetched) = Len(torrents)
    /\ (DownloadLeft /\ FetchFailed) =>
         (pc = "crashed" /\ fetched[Len(fetched)][2] = "error")

C17_Step ==
    /\ (pc = "loop" /\ ep_num > end_ep["v"]) => pc' = "resolved"
    /\ (pc = "prompt" /\ Declines(replies'[Len(replies')]))
         => pc' = "resolved"
    /\ pc' = "resolved" => pc \in {"loop", "prompt"}
    /\ pc = "resolved" =>
         /\ pc' \in {"download", "exited"}
         /\ pc' = "download" <=> torrents # <<>>
    /\ (pc = "resolved" \/ PastLoop \/ pc = "crashed") =>
         (pc' \in {"download", "report", "done", "exited", "crashed"}
            /\ torrents' = torrents)

\* C17: after the resolution loop ends, by exhausting the range or by the
\* user declining at a NotFound, download() is invoked exactly once and
\* attempts the selections accumulated so far one after another in
\* ascending episode order: all of them when every fetch answers or times
\* out, and those up to the first fetch that raises another exception,
\* which ends the run.
C17_DownloadOnceInOrder == []C17_State /\ [][C17_Step]_vars

\* C17 witness: the user declined after two episodes were selected, and
\* download() attempted both.
C17_Witness ==
    /\ DownloadReturned
    /\ replies # <<>>
    /\ Declines(replies[Len(replies)])
    /\ Len(torrents) = 2
    /\ Len(fetched) = 2
    /\ fetched[1][1] < fetched[2][1]

\* the index the user chose at the prompt, 0 on empty input
ChosenIndex(typed) == IF typed = <<>> THEN 0 ELSE IntOf(typed)

\* a title in lower case with no character that a regular expression reads
\* as anything but itself
PlainTitle(name) ==
    /\ Lower(name) = name
    /\ \A i \in DOMAIN name : name[i] # "."

\* no exact match, and no closest match or allow_closest false
NoMatchToTake ==
    /\ ExactPositions = {}
    /\ ~frame["allow_closest"] \/ ClosestPositions = {}

C19_State ==
    /\ \A k \in DOMAIN fetched :
         Occurrences([i \in DOMAIN fetched |-> fetched[i][1]], fetched[k][1])
           = 1
    /\ pc = "download" =>
         /\ idx \in 1..(Len(torrents) + 1)
         /\ Len(fetched) = idx - 1
         /\ ~FetchFailed
         /\ ENABLED RunFetch \/ ENABLED RunDownloadReturn
         /\ idx = Len(torrents) + 1 => ENABLED RunDownloadReturn
    /\ (DownloadLeft /\ ~FetchFailed) =>
         /\ pc \in {"report", "done", "crashed"}
         /\ Len(fetched) = Len(torrents)
         /\ \A s \in DOMAIN torrents :
              \E k \in DOMAIN fetched : fetched[k][1] = torrents[s][1]

C19_Step ==
    /\ (pc = "download" /\ pc' = "download") =>
         /\ idx' = idx + 1
         /\ fetched' = Append(fetched, <<torrents[idx][1], "ok">>)
              \/ fetched' = Append(fetched, <<torrents[idx][1], "timeout">>)
    /\ (pc = "download" /\ pc' = "report") =>
         (fetched' = fetched /\ idx = Len(torrents) + 1)
    /\ pc # "download" => fetched' = fetched

\* C19: download() attempts the fetch of each selection exactly once and
\* terminates: every attempt, timed out or not, moves the loop to the next
\* selection, so a fetch is never tried again, and when every failure is a
\* timeout the loop reaches its end with as many attempts as selections.
C19_EachFetchedOnce == []C19_State /\ [][C19_Step]_vars

\* C19 witness: download() has returned after three attempts, all of which
\* timed out.
C19_Witness ==
    /\ pc = "report"
    /\ Len(torrents) = 3
    /\ fetched = [k \in 1..3 |-> <<torrents[k][1], "timeout">>]

====
